---- MODULE Spec2Model ----
(***************************************************************************)
(* Model of the PDF conversion-decision and OCR extraction pipeline of     *)
(* lambda_tyt_v1: SimplifiedTextractService (services/enhancedTextract.js) *)
(* and SimplifiedPDFConverter (utils/pdfToImage.js).                       *)
(*                                                                         *)
(* A file is modelled by its leading bytes, its byte length and the PDF    *)
(* markers found in its first 10000 bytes.  A path is a directory (a       *)
(* sequence of names) and a file name; a name is a sequence of tokens so   *)
(* that basename/extname/join are computed rather than assumed.           *)
(***************************************************************************)
EXTENDS Integers, Sequences, FiniteSets, TLC

VARIABLES
    fs,               \* the disk: existing file path -> content
    dirs,             \* the directories created so far
    entry,            \* the exported operation that was invoked
    pc,               \* position inside that operation
    filePath,         \* argument filePath / pdfPath
    documentType,     \* argument documentType
    documentBuffer,   \* bytes read at extractTextFromDocument:64 (or passed in)
    decision,         \* result of shouldAttemptConversion
    generatedImages,  \* SimplifiedTextractService.generatedImages
    results,          \* pages the raster strategy has written so far
    imagePaths,       \* imagePaths of convertPDFToImages (a strategy's result)
    convReturn,       \* imagePaths of attemptPDFConversion (the chain's result)
    targetImage,      \* targetImage of attemptPDFConversion
    finalFilePath,    \* finalFilePath of extractTextFromDocument
    toClean,          \* imagePaths still to visit in cleanupGeneratedImages
    calls,            \* OCR backend calls issued, in order
    answers,          \* history: what the backend answered to each call
    chain,            \* history: the conversion strategies run and how each ended
    outcome,          \* what the invoked operation gives its caller
    written,          \* history: files created by a strategy or the optimizer
    removeFailed,     \* history: paths whose fs.remove was rejected
    cleanups,         \* history: the disk as each cleanup() call left it
    peer,             \* a second invocation, suspended at an await: its locals
    fs0               \* history: the disk when the operation was invoked

vars == << fs, dirs, entry, pc, filePath, documentType, documentBuffer,
           decision, generatedImages, results, imagePaths, convReturn,
           targetImage, finalFilePath, toClean, calls, answers, chain,
           outcome, written, removeFailed, cleanups, peer, fs0 >>

NULL == "null"                 \* a null documentType
None == [ none |-> TRUE ]      \* no buffer, no path, no result yet

-----------------------------------------------------------------------------
(* Program constants                                                       *)

KiB == 1024
MiB == 1024 * 1024

SYNC_BYTES == 5 * MiB
ASYNC_BYTES == 500 * MiB
MIN_SIZE_FOR_CONVERSION == 50 * KiB
MAX_SIZE_FOR_CONVERSION == 20 * MiB
QUALITY_THRESHOLD == 15
ANALYZE_MIN_BYTES == MiB
MIN_DOCUMENT_BYTES == 100
SAMPLE_BYTES == 10000

CONVERT_TO_IMAGE_TYPES ==
    { "soporte_prueba_saberProtyt", "diploma_bachiller", "diploma_tecnico",
      "diploma_tecnologo", "titulo_profesional" }

structuredDocuments == { "soporte_prueba_saberProtyt" }

DOCUMENT_FEATURES ==
    [ cedula |-> <<"FORMS", "SIGNATURES">>,
      diploma_bachiller |-> <<"FORMS", "TABLES">>,
      diploma_tecnico |-> <<"FORMS", "TABLES">>,
      diploma_tecnologo |-> <<"FORMS", "TABLES">>,
      titulo_profesional |-> <<"FORMS", "TABLES">>,
      prueba_tt |-> <<"FORMS", "TABLES", "LAYOUT">>,
      icfes |-> <<"FORMS", "TABLES", "LAYOUT">>,
      recibo_pago |-> <<"FORMS", "TABLES">>,
      encuesta_m0 |-> <<"FORMS">>,
      acta_homologacion |-> <<"FORMS", "TABLES">>,
      soporte_prueba_saberProtyt |-> <<"FORMS", "TABLES", "LAYOUT">> ]

textract == [ timeout |-> 60000, retries |-> 3 ]
extendedTextract == [ timeout |-> 120000, retries |-> 5 ]

-----------------------------------------------------------------------------
(* Bytes and file contents                                                 *)

PDF_SIG == << 37, 80, 68, 70 >>                       \* "%PDF"
PNG_SIG == << 137, 80, 78, 71 >>
JPEG_SIG == << 255, 216, 255 >>
TIFF_II == << 73, 73 >>
TIFF_MM == << 77, 77 >>
HTML_DOCTYPE == << 60, 33, 68, 79, 67, 84, 89, 80, 69 >>   \* "<!DOCTYPE"
HTML_TAG == << 60, 104, 116, 109, 108 >>                   \* "<html"
HTML_DO == << 60, 33, 100, 111 >>                          \* "<!do"

Min(a, b) == IF a < b THEN a ELSE b

IsPrefix(p, s) == Len(p) <= Len(s) /\ SubSeq(s, 1, Len(p)) = p

\* buffer.slice(0, n).toString().startsWith(p) for an ASCII prefix p
StartsWith(buf, p) == IsPrefix(p, buf.head)

\* buffer.toString() === s : the whole buffer is exactly the bytes of s
ToStringEquals(buf, s) == buf.len = Len(s) /\ buf.head = s

NoMarks == [ font |-> FALSE, type1 |-> FALSE, xobject |-> FALSE,
             flate |-> FALSE, images |-> 0 ]

Content(head, len, marks) == [ head |-> head, len |-> len, marks |-> marks ]

-----------------------------------------------------------------------------
(* Paths                                                                   *)

Last(s) == s[Len(s)]
Front(s) == SubSeq(s, 1, Len(s) - 1)

ExtTokens == { ".pdf", ".PDF", ".png" }

Path(dir, name) == [ dir |-> dir, name |-> name ]

\* p.endsWith('.pdf')
endsWithPdf(p) == Last(p.name) = ".pdf"

\* p.toLowerCase().endsWith('.pdf')
lowerEndsWithPdf(p) == Last(p.name) \in { ".pdf", ".PDF" }

\* path.dirname(p)
dirname(p) == p.dir

\* path.basename(p, '.pdf') : the extension is stripped only on an exact match
basenamePdf(p) == IF Last(p.name) = ".pdf" /\ Len(p.name) > 1
                  THEN Front(p.name) ELSE p.name

\* path.extname(p) and path.basename(p, path.extname(p))
extname(p) == IF Last(p.name) \in ExtTokens /\ Len(p.name) > 1
              THEN << Last(p.name) >> ELSE << >>
basenameNoExt(p) == IF extname(p) = << >> THEN p.name ELSE Front(p.name)

\* path.join(dir, name)
join(dir, name) == Path(dir, name)

\* imageDir of attemptPDFConversion: path.join(tempDir, `${baseName}_converted`)
imageDirOf(pdfPath) == Append(dirname(pdfPath), basenamePdf(pdfPath) \o << "_converted" >>)

-----------------------------------------------------------------------------
(* SimplifiedPDFConverter: isPDF, assessPDFQuality                         *)

\* fs.readFile(filePath, { start: 0, end: 4 }): readFile has no start/end
\* options, so the whole file is read; a missing file rejects.
readFile(disk, p) == IF p \in DOMAIN disk THEN disk[p] ELSE None

isPDF(disk, p) ==
    LET buffer == readFile(disk, p)
    IN  IF buffer = None THEN FALSE ELSE ToStringEquals(buffer, PDF_SIG)

\* score of assessPDFQuality; the catch branch (score 0) is taken when the
\* argument is not a buffer
assessPDFQuality(pdfBuffer) ==
    IF pdfBuffer = None THEN
        [ score |-> 0, isHighQuality |-> FALSE ]
    ELSE
        LET m == pdfBuffer.marks
            s1 == IF m.font \/ m.type1 THEN 30 ELSE 0
            s2 == IF m.xobject /\ m.images > 0 THEN s1 - 20 ELSE s1
            s3 == IF m.flate THEN s2 + 10 ELSE s2
            score == IF m.images > 2 THEN s3 - 15 ELSE s3
        IN  [ score |-> score, isHighQuality |-> score >= 20 ]

-----------------------------------------------------------------------------
(* SimplifiedTextractService.shouldAttemptConversion                       *)

typeNotConvertible_noNullCheck(docType) == docType \notin CONVERT_TO_IMAGE_TYPES \cup {NULL}

typeNotConvertible(docType) ==
    docType = NULL \/ docType \notin CONVERT_TO_IMAGE_TYPES

tooSmall(fileSize) == fileSize < MIN_SIZE_FOR_CONVERSION

tooLarge_inclusive(fileSize) == fileSize >= MAX_SIZE_FOR_CONVERSION

tooLarge(fileSize) == fileSize > MAX_SIZE_FOR_CONVERSION

lowQuality(quality) == quality.score < QUALITY_THRESHOLD

\* ret is the value returned, at the return statement that produced it
shouldAttemptConversion(disk, p, docType, buffer) ==
    IF ~ isPDF(disk, p) THEN [ ret |-> FALSE, at |-> "notPDF" ]
    ELSE IF typeNotConvertible(docType) THEN [ ret |-> FALSE, at |-> "type" ]
    ELSE IF buffer = None THEN [ ret |-> FALSE, at |-> "catch" ]
    ELSE IF tooSmall(buffer.len) THEN [ ret |-> FALSE, at |-> "small" ]
    ELSE IF tooLarge(buffer.len) THEN [ ret |-> FALSE, at |-> "large" ]
    ELSE IF lowQuality(assessPDFQuality(buffer)) THEN [ ret |-> TRUE, at |-> "lowQuality" ]
    ELSE [ ret |-> FALSE, at |-> "goodQuality" ]

-----------------------------------------------------------------------------
(* SimplifiedTextractService: validation and call shape                    *)

detectFileType(buffer) ==
    IF IsPrefix(PDF_SIG, buffer.head) THEN "PDF"
    ELSE IF IsPrefix(PNG_SIG, buffer.head) THEN "PNG"
    ELSE IF IsPrefix(JPEG_SIG, buffer.head) THEN "JPEG"
    ELSE IF IsPrefix(TIFF_II, buffer.head) \/ IsPrefix(TIFF_MM, buffer.head) THEN "TIFF"
    ELSE "UNKNOWN"

\* the error validateDocument throws, or NULL when it returns
validateDocument(buffer) ==
    IF StartsWith(buffer, HTML_DOCTYPE) \/ StartsWith(buffer, HTML_TAG)
       \/ StartsWith(buffer, HTML_DO) THEN "HTML_FILE_DETECTED"
    ELSE IF buffer.len < MIN_DOCUMENT_BYTES THEN "DOCUMENT_TOO_SMALL"
    ELSE IF buffer.len > ASYNC_BYTES THEN "DOCUMENT_TOO_LARGE"
    ELSE IF detectFileType(buffer) \notin { "PDF", "PNG", "JPEG", "TIFF" }
         THEN "UNSUPPORTED_FILE_TYPE: UNKNOWN"     \* `UNSUPPORTED_FILE_TYPE: ${fileType}`
    ELSE NULL

shouldUseAnalyzeDocument(fileSize, docType) ==
    IF docType # NULL /\ docType \in structuredDocuments THEN TRUE
    ELSE IF fileSize < ANALYZE_MIN_BYTES THEN FALSE
    ELSE TRUE

getFeatureTypesForDocument(docType) ==
    IF docType = NULL \/ docType \notin DOMAIN DOCUMENT_FEATURES
    THEN << "FORMS" >>
    ELSE DOCUMENT_FEATURES[docType]

fitsSyncClient_strict(len) == len < SYNC_BYTES

fitsSyncClient(len) == len <= SYNC_BYTES

\* the client extractWithAnalyzeDocument sends the analyze request through
analyzeClient(len) == IF fitsSyncClient(len) THEN textract ELSE extendedTextract

-----------------------------------------------------------------------------
(* Inputs                                                                  *)

PDF_HEAD == << 37, 80, 68, 70, 45, 49, 46, 52, 10 >>          \* "%PDF-1.4\n"
PNG_HEAD == << 137, 80, 78, 71, 13, 10, 26, 10, 0 >>
JPEG_HEAD == << 255, 216, 255, 224, 0, 16, 74, 70, 73 >>
TIFF_HEAD == << 73, 73, 42, 0, 8, 0, 0, 0, 1 >>
GIF_HEAD == << 71, 73, 70, 56, 57, 97, 1, 0, 1 >>
HTML_HEAD == << 60, 104, 116, 109, 108, 62, 60, 104, 101 >>  \* "<html><he"
DOCTYPE_HEAD == HTML_DOCTYPE

\* the file of the given length whose leading bytes are those of head
File(head, len, marks) == Content(SubSeq(head, 1, Min(len, Len(head))), len, marks)

SampleLens ==
    { 99, 100, 10 * KiB,
      MIN_SIZE_FOR_CONVERSION - 1, MIN_SIZE_FOR_CONVERSION,
      ANALYZE_MIN_BYTES - 1, ANALYZE_MIN_BYTES, 2 * MiB,
      SYNC_BYTES, SYNC_BYTES + 1,
      MAX_SIZE_FOR_CONVERSION, MAX_SIZE_FOR_CONVERSION + 1,
      ASYNC_BYTES, ASYNC_BYTES + 1 }

Marks(font, type1, xobject, flate, images) ==
    [ font |-> font, type1 |-> type1, xobject |-> xobject, flate |-> flate,
      images |-> images ]

SampleMarks ==
    { NoMarks,                                   \* score 0
      Marks(TRUE, FALSE, FALSE, TRUE, 0),        \* native text, score 40
      Marks(TRUE, FALSE, TRUE, FALSE, 1),        \* score 10
      Marks(FALSE, TRUE, TRUE, TRUE, 1),         \* score 20
      Marks(TRUE, FALSE, TRUE, FALSE, 0),        \* score 30
      Marks(FALSE, FALSE, TRUE, FALSE, 3),       \* scanned, score -35
      Marks(TRUE, FALSE, FALSE, FALSE, 3),       \* score 15
      Marks(TRUE, FALSE, TRUE, TRUE, 3) }        \* score 5

\* a file that is exactly the four bytes "%PDF"
BarePdfSig == File(PDF_SIG, 4, NoMarks)

PdfFiles == { File(PDF_HEAD, n, m) : n \in SampleLens, m \in SampleMarks }

OtherFiles ==
    { File(h, n, NoMarks) :
        h \in { PNG_HEAD, JPEG_HEAD, TIFF_HEAD, GIF_HEAD, HTML_HEAD, DOCTYPE_HEAD },
        n \in { 99, 100, 10 * KiB, 2 * MiB, SYNC_BYTES + 1, ASYNC_BYTES + 1 } }

SampleFiles == PdfFiles \cup OtherFiles \cup { BarePdfSig }

DocTypes == { NULL, "soporte_prueba_saberProtyt", "diploma_bachiller", "cedula", "otro" }

TMP == << << "tmp" >> >>
DocPdf == Path(TMP, << "doc", ".pdf" >>)
DocUpperPdf == Path(TMP, << "DOC", ".PDF" >>)
ScanPng == Path(TMP, << "scan", ".png" >>)
SourcePaths == { DocPdf, DocUpperPdf, ScanPng }

EmptyDisk == [ p \in {} |-> None ]

\* the disk holding the one file c at path p
DiskWith(p, c) == [ q \in {p} |-> c ]

Idle(e, disk, p, t, b) ==
    /\ entry = e
    /\ fs = disk
    /\ filePath = p
    /\ documentType = t
    /\ documentBuffer = b
    /\ dirs = {}
    /\ pc = "call"
    /\ decision = None
    /\ generatedImages = << >>
    /\ convReturn = << >>
    /\ targetImage = None
    /\ finalFilePath = None
    /\ calls = << >>
    /\ answers = << >>
    /\ chain = << >>
    /\ outcome = None
    /\ written = {}
    /\ results = << >>
    /\ toClean = << >>
    /\ removeFailed = {}
    /\ cleanups = << >>
    /\ fs0 = disk

-----------------------------------------------------------------------------
(* shouldAttemptConversion called on its own: a file on disk, a document   *)
(* type and a buffer, each drawn independently                             *)

DecisionFiles ==
    { BarePdfSig, File(PNG_HEAD, 2 * MiB, NoMarks), File(HTML_HEAD, 2 * MiB, NoMarks) }
    \cup { File(PDF_HEAD, n, NoMarks) :
             n \in { 100, MIN_SIZE_FOR_CONVERSION, 2 * MiB, MAX_SIZE_FOR_CONVERSION + 1 } }

InitDecide ==
    \E p \in { DocPdf, ScanPng }, t \in DocTypes,
       b \in PdfFiles \cup { BarePdfSig, None } :
        \E disk \in { DiskWith(p, c) : c \in DecisionFiles } \cup { EmptyDisk } :
            Idle("shouldAttemptConversion", disk, p, t, b) /\ imagePaths = << >> /\ peer = None

Decide ==
    /\ entry = "shouldAttemptConversion"
    /\ pc = "call"
    /\ decision' = shouldAttemptConversion(fs, filePath, documentType, documentBuffer)
    /\ outcome' = [ kind |-> "value", val |-> decision'.ret ]
    /\ pc' = "returned"
    /\ UNCHANGED << fs, dirs, entry, filePath, documentType, documentBuffer,
                    generatedImages, results, imagePaths, convReturn,
                    targetImage, finalFilePath, toClean, calls, answers,
                    chain, written, removeFailed, cleanups, peer, fs0 >>

NextDecide == Decide

SpecDecide == InitDecide /\ [][NextDecide]_vars

\* the four conditions of the conversion decision, as the claims state them
FileStartsWithPdfSignature == filePath \in DOMAIN fs /\ StartsWith(fs[filePath], PDF_SIG)
DocTypeAllowListed == documentType # NULL /\ documentType \in CONVERT_TO_IMAGE_TYPES
SizeWithinBounds ==
    /\ documentBuffer # None
    /\ MIN_SIZE_FOR_CONVERSION <= documentBuffer.len
    /\ documentBuffer.len <= MAX_SIZE_FOR_CONVERSION
QualityBelowThreshold ==
    documentBuffer # None /\ assessPDFQuality(documentBuffer).score < QUALITY_THRESHOLD
AllFourConditions ==
    /\ FileStartsWithPdfSignature
    /\ DocTypeAllowListed
    /\ SizeWithinBounds
    /\ QualityBelowThreshold

Decided == entry = "shouldAttemptConversion" /\ pc = "returned"

\* C1: shouldAttemptConversion returns true only when the file starts with
\* %PDF, the docType is allow-listed, the buffer length is within
\* [MIN_SIZE_FOR_CONVERSION, MAX_SIZE_FOR_CONVERSION] and the quality score
\* is below QUALITY_THRESHOLD; when any of them fails (a null docType and an
\* internal error included) it returns false.
C1_TrueOnlyWhenAllFour ==
    Decided =>
        /\ decision.ret \in BOOLEAN
        /\ (~ AllFourConditions) => decision.ret = FALSE
        /\ documentType = NULL => decision.ret = FALSE
        /\ decision.at = "catch" => decision.ret = FALSE

C1_Witness == Decided /\ decision.ret = TRUE /\ AllFourConditions

\* C2 (as claimed): whenever all four conditions hold - the file begins with
\* %PDF whatever follows and whatever its length - shouldAttemptConversion
\* returns true.
C2_TrueWheneverAllFour == Decided /\ AllFourConditions => decision.ret = TRUE

\* C3: the size condition is inclusive at both bounds and exclusive just
\* outside them: MIN_SIZE_FOR_CONVERSION - 1 and MAX_SIZE_FOR_CONVERSION + 1
\* bytes give false, and MIN_SIZE_FOR_CONVERSION and MAX_SIZE_FOR_CONVERSION
\* bytes never leave through a size return, so that with the other checks
\* passed the result is true.
C3_SizeBounds ==
    Decided /\ documentBuffer # None =>
        /\ documentBuffer.len \in { MIN_SIZE_FOR_CONVERSION - 1, MAX_SIZE_FOR_CONVERSION + 1 }
              => decision.ret = FALSE
        /\ documentBuffer.len \in { MIN_SIZE_FOR_CONVERSION, MAX_SIZE_FOR_CONVERSION }
              => /\ decision.at \notin { "small", "large" }
                 /\ (decision.at \notin { "notPDF", "type" } /\ QualityBelowThreshold)
                       => decision.ret = TRUE
        /\ decision.at = "small" <=> /\ decision.at \notin { "notPDF", "type" }
                                     /\ documentBuffer.len < MIN_SIZE_FOR_CONVERSION
        /\ decision.at = "large" <=> /\ decision.at \notin { "notPDF", "type" }
                                     /\ documentBuffer.len > MAX_SIZE_FOR_CONVERSION

C3_Witness ==
    /\ Decided
    /\ documentBuffer # None
    /\ documentBuffer.len = MAX_SIZE_FOR_CONVERSION
    /\ decision.ret = TRUE

-----------------------------------------------------------------------------
(* OCR backend responses and their aggregation                             *)

Block(type, text) == [ BlockType |-> type, Text |-> text ]

\* a response: a rejection (error # NULL), or a result with or without Blocks
Rejected(e) == [ error |-> e, hasBlocks |-> FALSE, Blocks |-> << >> ]
Result(blocks) == [ error |-> NULL, hasBlocks |-> TRUE, Blocks |-> blocks ]
ResultWithoutBlocks == [ error |-> NULL, hasBlocks |-> FALSE, Blocks |-> << >> ]

Responses ==
    { Rejected("TimeoutError"), Rejected("InvalidParameterException"),
      ResultWithoutBlocks,
      Result(<< >>),
      Result(<< Block("PAGE", << >>), Block("WORD", << "a" >>) >>),
      Result(<< Block("LINE", << " " >>) >>),
      Result(<< Block("PAGE", << >>), Block("LINE", << "a" >>) >>),
      Result(<< Block("LINE", << "a" >>), Block("WORD", << "a" >>),
                Block("LINE", << "b", " " >>) >>) }

\* lineText when the text of every block is taken, whatever its type
RECURSIVE lineText_allBlocks(_)
lineText_allBlocks(blocks) ==
    IF blocks = << >> THEN << >>
    ELSE blocks[1].Text \o << " " >> \o lineText_allBlocks(Tail(blocks))

\* the forEach of extractWithDetectDocument / processAnalyzeResult:
\* extractedText += block.Text + " " for every LINE block
RECURSIVE lineText(_)
lineText(blocks) ==
    IF blocks = << >> THEN << >>
    ELSE IF blocks[1].BlockType = "LINE"
         THEN blocks[1].Text \o << " " >> \o lineText(Tail(blocks))
         ELSE lineText(Tail(blocks))

RECURSIVE trimStart(_)
trimStart(t) == IF t # << >> /\ t[1] = " " THEN trimStart(Tail(t)) ELSE t

RECURSIVE trimEnd(_)
trimEnd(t) == IF t # << >> /\ Last(t) = " " THEN trimEnd(Front(t)) ELSE t

\* String.prototype.trim
trim(t) == trimEnd(trimStart(t))

Text(t) == [ kind |-> "text", text |-> t ]
Error(e) == [ kind |-> "error", error |-> e ]
Value(v) == [ kind |-> "value", val |-> v ]

\* detectOutcome without the test of trimmedText.length
detectOutcome_noEmptyCheck(resp) ==
    IF resp.error # NULL THEN Error(resp.error)
    ELSE Text(trim(IF resp.hasBlocks /\ Len(resp.Blocks) > 0
                   THEN lineText(resp.Blocks) ELSE << >>))

\* extractWithDetectDocument after detectDocumentText has answered
detectOutcome(resp) ==
    IF resp.error # NULL THEN Error(resp.error)
    ELSE LET extractedText == IF resp.hasBlocks /\ Len(resp.Blocks) > 0
                              THEN lineText(resp.Blocks) ELSE << >>
             trimmedText == trim(extractedText)
         IN  IF Len(trimmedText) = 0 THEN Error("NO_TEXT_EXTRACTED")
             ELSE Text(trimmedText)

\* processAnalyzeResult
processAnalyzeResult(resp) ==
    IF ~ resp.hasBlocks \/ Len(resp.Blocks) = 0 THEN Error("NO_TEXT_EXTRACTED")
    ELSE LET extractedText == trim(lineText(resp.Blocks))
         IN  IF Len(extractedText) = 0 THEN Error("NO_TEXT_EXTRACTED")
             ELSE Text(extractedText)

\* the try block of extractWithAnalyzeDocument after analyzeDocument answered
analyzeOutcome(resp) ==
    IF resp.error # NULL THEN Error(resp.error) ELSE processAnalyzeResult(resp)

Call(op, client, bytes, features) ==
    [ op |-> op, client |-> client, bytes |-> bytes, features |-> features ]

-----------------------------------------------------------------------------
(* The exported operations, step by step                                   *)

argVars == << entry, filePath, documentType, fs0, peer >>
diskVars == << fs, dirs, written >>
convVars == << results, imagePaths, convReturn, targetImage, chain >>
cleanVars == << toClean, removeFailed, cleanups >>
callVars == << calls, answers >>

\* module function extractTextFromDocument(filePath, documentType)
InitExtract ==
    \E p \in SourcePaths, t \in DocTypes :
        \E disk \in { DiskWith(p, c) : c \in SampleFiles } \cup { EmptyDisk } :
            Idle("extractTextFromDocument", disk, p, t, None) /\ imagePaths = << >> /\ peer = None

\* extractTextFromDocument:64 - const documentBuffer = await fs.readFile(filePath)
ReadInput ==
    /\ entry = "extractTextFromDocument"
    /\ pc = "call"
    /\ IF filePath \in DOMAIN fs
       THEN /\ documentBuffer' = fs[filePath]
            /\ pc' = "validate"
            /\ UNCHANGED outcome
       ELSE /\ outcome' = Error("ENOENT")
            /\ pc' = "finally"
            /\ UNCHANGED documentBuffer
    /\ UNCHANGED << argVars, diskVars, convVars, cleanVars, decision,
                    generatedImages, finalFilePath, callVars >>

\* Validate when the error of validateDocument is swallowed
Validate_continues ==
    /\ pc = "validate"
    /\ pc' = "decide"
    /\ UNCHANGED << argVars, diskVars, convVars, cleanVars, documentBuffer,
                    decision, generatedImages, finalFilePath, callVars, outcome >>

\* extractTextFromDocument:65 - await this.validateDocument(documentBuffer, filePath)
Validate ==
    /\ pc = "validate"
    /\ LET err == validateDocument(documentBuffer)
       IN  IF err # NULL
           THEN outcome' = Error(err) /\ pc' = "finally"
           ELSE pc' = "decide" /\ UNCHANGED outcome
    /\ UNCHANGED << argVars, diskVars, convVars, cleanVars, documentBuffer,
                    decision, generatedImages, finalFilePath, callVars >>

\* DecideConversion when the conversion is entered whatever was decided
DecideConversion_convertsAnyway ==
    /\ pc = "decide"
    /\ decision' = shouldAttemptConversion(fs, filePath, documentType, documentBuffer)
    /\ finalFilePath' = filePath
    /\ pc' = "ensureImageDir"
    /\ UNCHANGED << argVars, diskVars, convVars, cleanVars, documentBuffer,
                    generatedImages, callVars, outcome >>

\* extractTextFromDocument:67-74 - the conversion decision
DecideConversion ==
    /\ pc = "decide"
    /\ decision' = shouldAttemptConversion(fs, filePath, documentType, documentBuffer)
    /\ finalFilePath' = filePath
    /\ pc' = IF decision'.ret THEN "ensureImageDir" ELSE "extract"
    /\ UNCHANGED << argVars, diskVars, convVars, cleanVars, documentBuffer,
                    generatedImages, callVars, outcome >>

\* the detect request of extractWithDetectDocument:385-391
detectRequest(buffer) == Call("detectDocumentText", textract, buffer, << >>)

\* the analyze request of extractWithAnalyzeDocument:351-365
analyzeRequest(buffer, docType) ==
    Call("analyzeDocument", analyzeClient(buffer.len), buffer,
         getFeatureTypesForDocument(docType))

\* service.performTextExtraction(filePath, documentType) called on a new service
PerformFiles ==
    OtherFiles \cup { File(PDF_HEAD, n, NoMarks) : n \in { 99, 100, ASYNC_BYTES + 1 } }

InitPerform ==
    \E t \in { NULL, "soporte_prueba_saberProtyt" } :
        \E disk \in { DiskWith(DocPdf, c) : c \in PerformFiles } \cup { EmptyDisk } :
            Idle("performTextExtraction", disk, DocPdf, t, None) /\ imagePaths = << >> /\ peer = None

\* extractionEnds when the module function has no finally block
extractionEnds_withoutFinally == IF entry = "performTextExtraction" THEN "returned" ELSE "done"

\* where the operation goes once extraction has returned or thrown: the
\* finally of the module function, or the caller of the method
extractionEnds == IF entry = "performTextExtraction" THEN "returned" ELSE "finally"

\* the filePath argument of performTextExtraction
extractionPath == IF entry = "performTextExtraction" THEN filePath ELSE finalFilePath

\* performTextExtraction:251-259 and the first request of
\* extractWithAnalyzeDocument / extractWithDetectDocument
IssueExtraction ==
    /\ \/ pc = "extract"
       \/ entry = "performTextExtraction" /\ pc = "call"
    /\ IF extractionPath \notin DOMAIN fs
       THEN /\ outcome' = Error("ENOENT")
            /\ pc' = extractionEnds
            /\ UNCHANGED << documentBuffer, calls >>
       ELSE LET buf == fs[extractionPath]
            IN  /\ documentBuffer' = buf
                /\ UNCHANGED outcome
                /\ IF shouldUseAnalyzeDocument(buf.len, documentType)
                   THEN /\ calls' = Append(calls, analyzeRequest(buf, documentType))
                        /\ pc' = "awaitAnalyze"
                   ELSE /\ calls' = Append(calls, detectRequest(buf))
                        /\ pc' = "awaitDetect"
    /\ UNCHANGED << argVars, diskVars, convVars, cleanVars, decision,
                    generatedImages, finalFilePath, answers >>

\* AnalyzeAnswers without the catch of extractWithAnalyzeDocument:369-372
AnalyzeAnswers_propagates ==
    /\ pc = "awaitAnalyze"
    /\ \E resp \in Responses :
        /\ answers' = Append(answers, resp)
        /\ outcome' = analyzeOutcome(resp)
    /\ pc' = extractionEnds
    /\ UNCHANGED << argVars, diskVars, convVars, cleanVars, documentBuffer,
                    decision, generatedImages, finalFilePath, calls >>

\* extractWithAnalyzeDocument:362-372 - the analyze request answers; any
\* failure, one thrown by processAnalyzeResult included, goes to the catch,
\* which issues the detect request
AnalyzeAnswers ==
    /\ pc = "awaitAnalyze"
    /\ \E resp \in Responses :
        LET r == analyzeOutcome(resp)
        IN  /\ answers' = Append(answers, resp)
            /\ IF r.kind = "text"
               THEN /\ outcome' = r
                    /\ pc' = extractionEnds
                    /\ UNCHANGED calls
               ELSE /\ calls' = Append(calls, detectRequest(documentBuffer))
                    /\ pc' = "awaitDetect"
                    /\ UNCHANGED outcome
    /\ UNCHANGED << argVars, diskVars, convVars, cleanVars, documentBuffer,
                    decision, generatedImages, finalFilePath >>

\* DetectAnswers when a rejected detect request is issued again (the history
\* is kept to three calls)
DetectAnswers_retries ==
    /\ pc = "awaitDetect"
    /\ \E resp \in Responses :
        /\ answers' = IF Len(answers) < 3 THEN Append(answers, resp) ELSE answers
        /\ IF resp.error # NULL
           THEN /\ calls' = IF Len(calls) < 3
                            THEN Append(calls, detectRequest(documentBuffer)) ELSE calls
                /\ pc' = "awaitDetect"
                /\ UNCHANGED outcome
           ELSE /\ outcome' = detectOutcome(resp)
                /\ pc' = extractionEnds
                /\ UNCHANGED calls
    /\ UNCHANGED << argVars, diskVars, convVars, cleanVars, documentBuffer,
                    decision, generatedImages, finalFilePath >>

\* extractWithDetectDocument:391-417 - the detect request answers
DetectAnswers ==
    /\ pc = "awaitDetect"
    /\ \E resp \in Responses :
        /\ answers' = Append(answers, resp)
        /\ outcome' = detectOutcome(resp)
    /\ pc' = extractionEnds
    /\ UNCHANGED << argVars, diskVars, convVars, cleanVars, documentBuffer,
                    decision, generatedImages, finalFilePath, calls >>

-----------------------------------------------------------------------------
(* cleanup and cleanupGeneratedImages                                      *)

MaxCleanups == 2

\* cleanup:471-474, called from the finally of the module function
\* extractTextFromDocument:493-495, or by the caller of a service method,
\* who may call it again
CleanupBegin ==
    /\ \/ entry = "extractTextFromDocument" /\ pc = "finally"
       \/ entry = "attemptPDFConversion" /\ pc = "returned"
       \/ entry = "attemptPDFConversion" /\ pc = "done" /\ Len(cleanups) < MaxCleanups
    /\ IF Len(generatedImages) > 0
       THEN toClean' = generatedImages /\ pc' = "cleaning" /\ UNCHANGED cleanups
       ELSE UNCHANGED toClean /\ pc' = "done" /\ cleanups' = Append(cleanups, fs)
    /\ UNCHANGED << argVars, diskVars, convVars, removeFailed, documentBuffer,
                    decision, generatedImages, finalFilePath, callVars, outcome >>

\* fs.remove(imagePath) of a path that is on the disk
removeFile(disk, imagePath) == [ q \in DOMAIN disk \ { imagePath } |-> disk[q] ]

skipInCleanup_never(imagePath) == FALSE

\* cleanupGeneratedImages:252 - if (imagePath.toLowerCase().endsWith('.pdf')) continue
skipInCleanup(imagePath) == lowerEndsWithPdf(imagePath)

\* CleanupPath with the try/catch around the loop instead of inside it: a
\* rejected fs.remove ends the loop
CleanupPath_stopsOnFailure ==
    /\ pc = "cleaning"
    /\ toClean # << >>
    /\ LET imagePath == Head(toClean)
       IN  IF skipInCleanup(imagePath) \/ imagePath \notin DOMAIN fs
           THEN UNCHANGED << fs, removeFailed >> /\ toClean' = Tail(toClean)
           ELSE \/ /\ fs' = removeFile(fs, imagePath)
                   /\ toClean' = Tail(toClean)
                   /\ UNCHANGED removeFailed
                \/ /\ removeFailed' = removeFailed \cup { imagePath }
                   /\ toClean' = << >>
                   /\ UNCHANGED fs
    /\ UNCHANGED << argVars, dirs, written, convVars, pc, documentBuffer, decision,
                    generatedImages, finalFilePath, callVars, outcome, cleanups >>

\* cleanupGeneratedImages:249-264 - one iteration of the loop
CleanupPath ==
    /\ pc = "cleaning"
    /\ toClean # << >>
    /\ LET imagePath == Head(toClean)
       IN  IF skipInCleanup(imagePath) \/ imagePath \notin DOMAIN fs
           THEN UNCHANGED << fs, removeFailed >>
           ELSE \/ fs' = removeFile(fs, imagePath) /\ UNCHANGED removeFailed
                \/ removeFailed' = removeFailed \cup { imagePath } /\ UNCHANGED fs
    /\ toClean' = Tail(toClean)
    /\ UNCHANGED << argVars, dirs, written, convVars, pc, documentBuffer, decision,
                    generatedImages, finalFilePath, callVars, outcome, cleanups >>

\* the loop of cleanupGeneratedImages is over; cleanup:475 empties the list
\* and the finally block lets the result or the error through
CleanupEnd_keepsList ==
    /\ pc = "cleaning"
    /\ toClean = << >>
    /\ cleanups' = IF entry = "cleanupGeneratedImages" THEN cleanups ELSE Append(cleanups, fs)
    /\ pc' = "done"
    /\ UNCHANGED << argVars, diskVars, convVars, toClean, removeFailed, documentBuffer,
                    decision, generatedImages, finalFilePath, callVars, outcome >>

CleanupEnd ==
    /\ pc = "cleaning"
    /\ toClean = << >>
    /\ generatedImages' = IF entry = "cleanupGeneratedImages" THEN generatedImages ELSE << >>
    /\ cleanups' = IF entry = "cleanupGeneratedImages" THEN cleanups ELSE Append(cleanups, fs)
    /\ pc' = "done"
    /\ UNCHANGED << argVars, diskVars, convVars, toClean, removeFailed, documentBuffer,
                    decision, finalFilePath, callVars, outcome >>

-----------------------------------------------------------------------------
(* attemptPDFConversion and convertPDFToImages                             *)

MaxPages == 2

PageSizes == { 100, 500 }

\* what pdf2pic names page n: `${savePath}/${saveFilename}.${n}.${format}`
pagePath(pdfPath, outputDir, n) ==
    join(outputDir, basenamePdf(pdfPath) \o << "_page", ToString(n), ".png" >>)

\* convertWithSharp:125-126
sharpOutputPath(pdfPath, outputDir) ==
    join(outputDir, basenamePdf(pdfPath) \o << "_converted", ".png" >>)

\* optimizeImageForTextract:145-150
optimizedOutputPath(imagePath) ==
    join(dirname(imagePath), basenameNoExt(imagePath) \o << "_optimized" >> \o extname(imagePath))

writeFile(disk, p, c) == [ q \in DOMAIN disk \cup { p } |-> IF q = p THEN c ELSE disk[q] ]

\* imagePaths.filter(p => p !== pdfPath)
withoutPdfPath_keepAll(paths, pdfPath) == paths

withoutPdfPath(paths, pdfPath) == SelectSeq(paths, LAMBDA q : q # pdfPath)

\* largest with >= in place of > : the last of equal sizes wins
RECURSIVE largest_lastOnTies(_, _, _, _, _)
largest_lastOnTies(images, disk, statFails, bestImage, maxSize) ==
    IF images = << >> THEN bestImage
    ELSE LET imagePath == Head(images)
         IN  IF imagePath \in DOMAIN disk /\ imagePath \notin statFails
                /\ disk[imagePath].len >= maxSize
             THEN largest_lastOnTies(Tail(images), disk, statFails, imagePath,
                                     disk[imagePath].len)
             ELSE largest_lastOnTies(Tail(images), disk, statFails, bestImage, maxSize)

\* the for loop of selectBestImage:230-240 over the images still to visit
RECURSIVE largest(_, _, _, _, _)
largest(images, disk, statFails, bestImage, maxSize) ==
    IF images = << >> THEN bestImage
    ELSE LET imagePath == Head(images)
         IN  IF imagePath \in DOMAIN disk /\ imagePath \notin statFails
                /\ disk[imagePath].len > maxSize
             THEN largest(Tail(images), disk, statFails, imagePath, disk[imagePath].len)
             ELSE largest(Tail(images), disk, statFails, bestImage, maxSize)

\* selectBestImage; statFails are the paths whose fs.stat is rejected
selectBestImage(paths, disk, statFails) ==
    LET actualImages == SelectSeq(paths, LAMBDA q : ~ endsWithPdf(q))
    IN  IF Len(actualImages) = 0 THEN paths[1]
        ELSE IF Len(actualImages) = 1 THEN actualImages[1]
        ELSE largest(actualImages, disk, statFails, actualImages[1], 0)

\* service.attemptPDFConversion(pdfPath, documentType) called on a new service
InitAttempt ==
    \E p \in SourcePaths, t \in { "soporte_prueba_saberProtyt", "diploma_bachiller" } :
        \E disk \in { DiskWith(p, c) :
                        c \in { File(PDF_HEAD, 2 * MiB, Marks(FALSE, FALSE, TRUE, FALSE, 3)),
                                BarePdfSig } }
                    \cup { EmptyDisk } :
            Idle("attemptPDFConversion", disk, p, t, None) /\ imagePaths = << >> /\ peer = None

\* attemptPDFConversion throws: caught at extractTextFromDocument:85-89, or
\* raised to the caller of the method
AttemptThrows(e) ==
    IF entry = "extractTextFromDocument"
    THEN pc' = "extract" /\ UNCHANGED << outcome, finalFilePath >>
    ELSE pc' = "returned" /\ outcome' = Error(e) /\ UNCHANGED finalFilePath

\* attemptPDFConversion returns convertedPath: extractTextFromDocument:79-84
AttemptReturns(convertedPath) ==
    IF entry = "extractTextFromDocument"
    THEN /\ pc' = "extract"
         /\ finalFilePath' = IF convertedPath # filePath THEN convertedPath ELSE finalFilePath
         /\ UNCHANGED outcome
    ELSE /\ pc' = "returned"
         /\ outcome' = Value(convertedPath)
         /\ UNCHANGED finalFilePath

\* attemptPDFConversion:159-163 - await fs.ensureDir(imageDir)
EnsureImageDir ==
    /\ \/ pc = "ensureImageDir"
       \/ entry = "attemptPDFConversion" /\ pc = "call"
    /\ \/ /\ dirs' = dirs \cup { imageDirOf(filePath) }
          /\ pc' = "convert"
          /\ UNCHANGED << outcome, finalFilePath >>
       \/ /\ AttemptThrows("EACCES")
          /\ UNCHANGED dirs
    /\ UNCHANGED << argVars, fs, written, convVars, cleanVars, documentBuffer,
                    decision, generatedImages, callVars >>

\* one strategy of the chain has ended: a ConversionAttempt
Attempt(strategyName, ended, outputPaths) ==
    [ strategyName |-> strategyName, ended |-> ended, outputPaths |-> outputPaths ]

\* convertPDFToImages:25-35 - pathExists and ensureDir; a failure goes to the
\* catch at 64-68, which returns [pdfPath]
ConvertBegin ==
    /\ pc = "convert"
    /\ \/ /\ filePath \in DOMAIN fs
          /\ dirs' = dirs \cup { imageDirOf(filePath) }
          /\ results' = << >>
          /\ pc' = "raster"
          /\ UNCHANGED convReturn
       \/ /\ convReturn' = << filePath >>
          /\ pc' = "record"
          /\ UNCHANGED << dirs, results >>
    /\ UNCHANGED << argVars, fs, written, imagePaths, targetImage, chain,
                    cleanVars, documentBuffer, decision, generatedImages,
                    finalFilePath, callVars, outcome >>

\* convertWithPdf2pic:77-82 - require('pdf2pic'); when it is missing the
\* error reaches the catch at convertPDFToImages:41
RasterRequire ==
    /\ pc = "raster"
    /\ \/ pc' = "rasterBulk" /\ UNCHANGED chain
       \/ pc' = "sharp" /\ chain' = Append(chain, Attempt("raster", "raised", << >>))
    /\ UNCHANGED << argVars, diskVars, results, imagePaths, convReturn,
                    targetImage, cleanVars, documentBuffer, decision,
                    generatedImages, finalFilePath, callVars, outcome >>

\* convertWithPdf2pic:98-99 - convert.bulk(-1) writes one more page
RasterWritePage ==
    /\ pc = "rasterBulk"
    /\ Len(results) < MaxPages
    /\ \E size \in PageSizes :
        LET page == pagePath(filePath, imageDirOf(filePath), Len(results) + 1)
        IN  /\ fs' = writeFile(fs, page, File(PNG_HEAD, size, NoMarks))
            /\ written' = written \cup { page }
            /\ results' = Append(results, page)
    /\ UNCHANGED << argVars, dirs, pc, imagePaths, convReturn, targetImage,
                    chain, cleanVars, documentBuffer, decision, generatedImages,
                    finalFilePath, callVars, outcome >>

\* convertWithPdf2pic:99-105 - bulk() rejects, after any number of pages;
\* rethrown at 105 and caught at convertPDFToImages:41
RasterFails ==
    /\ pc = "rasterBulk"
    /\ pc' = "sharp"
    /\ chain' = Append(chain, Attempt("raster", "raised", << >>))
    /\ UNCHANGED << argVars, diskVars, results, imagePaths, convReturn,
                    targetImage, cleanVars, documentBuffer, decision,
                    generatedImages, finalFilePath, callVars, outcome >>

\* convertWithPdf2pic:101-102 and convertPDFToImages:40
RasterReturns ==
    /\ pc = "rasterBulk"
    /\ imagePaths' = results
    /\ chain' = Append(chain, Attempt("raster", "returned", results))
    /\ pc' = "convReturn"
    /\ UNCHANGED << argVars, diskVars, results, convReturn, targetImage,
                    cleanVars, documentBuffer, decision, generatedImages,
                    finalFilePath, callVars, outcome >>

\* convertPDFToImages:45-53 with convertWithSharp:112-137 - sharp missing or
\* the copy rejected: [pdfPath] is returned at 52; otherwise the copy is
\* written and convertWithSharp returns [pdfPath]
ConvertWithSharp ==
    /\ pc = "sharp"
    /\ \/ /\ convReturn' = << filePath >>
          /\ chain' = Append(chain, Attempt("sharp", "raised", << >>))
          /\ pc' = "record"
          /\ UNCHANGED << fs, written, imagePaths >>
       \/ /\ filePath \in DOMAIN fs
          /\ LET outputPath == sharpOutputPath(filePath, imageDirOf(filePath))
             IN  /\ fs' = writeFile(fs, outputPath, fs[filePath])
                 /\ written' = written \cup { outputPath }
          /\ imagePaths' = << filePath >>
          /\ chain' = Append(chain, Attempt("sharp", "returned", << filePath >>))
          /\ pc' = "convReturn"
          /\ UNCHANGED convReturn
    /\ UNCHANGED << argVars, dirs, results, targetImage, cleanVars,
                    documentBuffer, decision, generatedImages, finalFilePath,
                    callVars, outcome >>

chainResult_noEmptyCheck(paths, pdfPath) == paths

\* convertPDFToImages:56-62 - what the chain returns for a strategy's result
chainResult(paths, pdfPath) == IF Len(paths) = 0 THEN << pdfPath >> ELSE paths

\* convertPDFToImages:56-62
ConvertReturns ==
    /\ pc = "convReturn"
    /\ convReturn' = chainResult(imagePaths, filePath)
    /\ pc' = "record"
    /\ UNCHANGED << argVars, diskVars, results, imagePaths, targetImage, chain,
                    cleanVars, documentBuffer, decision, generatedImages,
                    finalFilePath, callVars, outcome >>

\* attemptPDFConversion:175-180 - this.generatedImages.push(...)
RecordImages ==
    /\ pc = "record"
    /\ IF Len(convReturn) = 0
       THEN AttemptThrows("No se generaron imagenes") /\ UNCHANGED generatedImages
       ELSE /\ generatedImages' = generatedImages \o withoutPdfPath(convReturn, filePath)
            /\ pc' = "select"
            /\ UNCHANGED << outcome, finalFilePath >>
    /\ UNCHANGED << argVars, diskVars, convVars, cleanVars, documentBuffer,
                    decision, callVars >>

\* attemptPDFConversion:183-191
SelectTarget ==
    /\ pc = "select"
    /\ \E statFails \in SUBSET { convReturn[i] : i \in 1..Len(convReturn) } :
        LET target == IF Len(convReturn) > 1 /\ ~ endsWithPdf(convReturn[1])
                      THEN selectBestImage(convReturn, fs, statFails)
                      ELSE convReturn[1]
        IN  /\ targetImage' = target
            /\ IF target = filePath
               THEN AttemptReturns(filePath)
               ELSE pc' = "optimize" /\ UNCHANGED << outcome, finalFilePath >>
    /\ UNCHANGED << argVars, diskVars, results, imagePaths, convReturn, chain,
                    cleanVars, documentBuffer, decision, generatedImages, callVars >>

\* what one call of optimizeImageForTextract did: what it gave its caller,
\* the disk it left, and how the sharp pipeline and the copy ended
Optimization(result, disk, attempts) ==
    [ result |-> result, disk |-> disk, attempts |-> attempts ]

\* what sharp(imagePath).png().resize().toFile(outputPath) writes
OptimizedImage == File(PNG_HEAD, 100, NoMarks)

\* optimizeImageForTextract without the catch at 172-176: a rejected copy
\* is raised to the caller
optimizeImageForTextract_noOuterCatch(disk, imagePath) ==
    LET outputPath == optimizedOutputPath(imagePath)
        sharpRaised == Attempt("sharp", "raised", << >>)
    IN  ( IF imagePath \in DOMAIN disk
          THEN { Optimization(Value(outputPath),
                              writeFile(disk, outputPath, OptimizedImage),
                              << Attempt("sharp", "returned", << outputPath >>) >>),
                 Optimization(Value(outputPath),
                              writeFile(disk, outputPath, disk[imagePath]),
                              << sharpRaised, Attempt("copy", "returned", << outputPath >>) >>) }
          ELSE {} )
        \cup { Optimization(Error("EACCES"), disk,
                            << sharpRaised, Attempt("copy", "raised", << >>) >>) }

\* optimizeImageForTextract:143-177 - the outcomes of one call: sharp writes
\* the optimized image (157-163); or sharp is missing or rejects and the
\* catch at 165 copies the source (167-169); or the copy is rejected too and
\* the catch at 172 returns imagePath.  Neither sharp nor the copy can
\* succeed on a source that is not on the disk.
optimizeImageForTextract(disk, imagePath) ==
    LET outputPath == optimizedOutputPath(imagePath)
        sharpRaised == Attempt("sharp", "raised", << >>)
    IN  ( IF imagePath \in DOMAIN disk
          THEN { Optimization(Value(outputPath),
                              writeFile(disk, outputPath, OptimizedImage),
                              << Attempt("sharp", "returned", << outputPath >>) >>),
                 Optimization(Value(outputPath),
                              writeFile(disk, outputPath, disk[imagePath]),
                              << sharpRaised, Attempt("copy", "returned", << outputPath >>) >>) }
          ELSE {} )
        \cup { Optimization(Value(imagePath), disk,
                            << sharpRaised, Attempt("copy", "raised", << >>) >>) }

\* attemptPDFConversion:193-203 - optimizeImageForTextract(targetImage); a
\* path other than targetImage is recorded; the catch at 200 returns
\* targetImage
OptimizeTarget ==
    /\ pc = "optimize"
    /\ \E o \in optimizeImageForTextract(fs, targetImage) :
          LET optimizedPath == IF o.result.kind = "value" THEN o.result.val ELSE targetImage
          IN  /\ fs' = o.disk
              /\ written' = IF optimizedPath # targetImage
                             THEN written \cup { optimizedPath } ELSE written
              /\ generatedImages' = IF optimizedPath # targetImage
                                     THEN Append(generatedImages, optimizedPath)
                                     ELSE generatedImages
              /\ AttemptReturns(optimizedPath)
    /\ UNCHANGED << argVars, dirs, convVars, cleanVars, documentBuffer,
                    decision, callVars >>

-----------------------------------------------------------------------------
(* service.selectBestImage(imagePaths) called on its own: the candidates  *)
(* are the PDF and page images; an image missing from the disk is one     *)
(* whose fs.stat is rejected                                              *)

MaxCandidates == 3

CandidateSizes == { 0, 100, 500 }

PageImages == { pagePath(DocPdf, imageDirOf(DocPdf), n) : n \in 1..3 }

\* the non-empty sequences over S of length at most n
RECURSIVE SeqsFrom(_, _)
SeqsFrom(S, n) ==
    IF n = 1 THEN { << x >> : x \in S }
    ELSE LET shorter == SeqsFrom(S, n - 1)
         IN  shorter \cup { Append(q, x) : q \in shorter, x \in S }

\* the disks holding the PDF and, of the page images, those of onDisk
CandidateDisks ==
    UNION { { [ q \in onDisk \cup { DocPdf } |->
                IF q = DocPdf THEN File(PDF_HEAD, 2 * MiB, NoMarks)
                ELSE File(PNG_HEAD, size[q], NoMarks) ] :
              size \in [ onDisk -> CandidateSizes ] } :
            onDisk \in SUBSET PageImages }

InitSelect ==
    \E paths \in SeqsFrom(PageImages \cup { DocPdf }, MaxCandidates), disk \in CandidateDisks :
        Idle("selectBestImage", disk, DocPdf, NULL, None) /\ imagePaths = paths /\ peer = None

\* selectBestImage:214-244
SelectBest ==
    /\ entry = "selectBestImage"
    /\ pc = "call"
    /\ targetImage' = selectBestImage(imagePaths, fs, {})
    /\ outcome' = Value(targetImage')
    /\ pc' = "returned"
    /\ UNCHANGED << argVars, diskVars, results, imagePaths, convReturn, chain,
                    cleanVars, documentBuffer, decision, generatedImages,
                    finalFilePath, callVars >>

NextSelect == SelectBest

SpecSelect == InitSelect /\ [][NextSelect]_vars

Selected == entry = "selectBestImage" /\ pc = "returned"

\* the candidates that are not PDF paths, in the order given
NonPdfCandidates == SelectSeq(imagePaths, LAMBDA q : ~ endsWithPdf(q))

\* q is the first of the largest of the sequence cands
FirstLargest(q, cands) ==
    \E i \in 1..Len(cands) :
        /\ cands[i] = q
        /\ \A j \in 1..Len(cands) : fs[cands[j]].len <= fs[q].len
        /\ \A j \in 1..(i - 1) : fs[cands[j]].len < fs[q].len

\* C16 (as claimed): selectBestImage returns no PDF path when there is a
\* non-PDF candidate; the only non-PDF candidate when there is one; with
\* several, the largest of those whose stat succeeds, the first on ties, a
\* candidate whose stat fails being left out; and the first path when every
\* candidate is a PDF path.
C16_SelectsLargestStatable ==
    Selected =>
        LET cands == NonPdfCandidates
            statable == SelectSeq(cands, LAMBDA q : q \in DOMAIN fs)
        IN  /\ Len(cands) >= 1 => ~ endsWithPdf(targetImage)
            /\ Len(cands) = 1 => targetImage = cands[1]
            /\ (Len(cands) > 1 /\ Len(statable) >= 1) => FirstLargest(targetImage, statable)
            /\ Len(cands) = 0 => targetImage = imagePaths[1]

\* C16 (amended): as claimed, the comparison being among the candidates
\* whose stat succeeds with a size above zero; when there is none, the
\* first non-PDF candidate is returned.
C16_SelectsLargestNonEmpty ==
    Selected =>
        LET cands == NonPdfCandidates
            sized == SelectSeq(cands, LAMBDA q : q \in DOMAIN fs /\ fs[q].len > 0)
        IN  /\ Len(cands) >= 1 => ~ endsWithPdf(targetImage)
            /\ Len(cands) = 1 => targetImage = cands[1]
            /\ (Len(cands) > 1 /\ Len(sized) >= 1) => FirstLargest(targetImage, sized)
            /\ (Len(cands) > 1 /\ Len(sized) = 0) => targetImage = cands[1]
            /\ Len(cands) = 0 => targetImage = imagePaths[1]

C16_Witness ==
    /\ Selected
    /\ Len(imagePaths) = 3
    /\ imagePaths[1] = DocPdf
    /\ imagePaths[2] # imagePaths[3]
    /\ { imagePaths[2], imagePaths[3] } \subseteq DOMAIN fs
    /\ fs[imagePaths[2]].len = 100
    /\ fs[imagePaths[3]].len = 500
    /\ targetImage = imagePaths[3]

-----------------------------------------------------------------------------
(* pdfConverter.cleanupGeneratedImages(imagePaths) called on its own       *)

MaxRecorded == 2

StalePng == Path(TMP, << "old", ".png" >>)
CleanupPaths == { DocPdf, DocUpperPdf, ScanPng, StalePng }

RECURSIVE SeqsUpTo(_, _)
SeqsUpTo(S, n) ==
    IF n = 0 THEN { << >> }
    ELSE LET shorter == SeqsUpTo(S, n - 1)
         IN  shorter \cup { Append(q, x) : q \in shorter, x \in S }

InitCleanup ==
    \E recorded \in SeqsUpTo(CleanupPaths, MaxRecorded), present \in SUBSET CleanupPaths :
        /\ Idle("cleanupGeneratedImages",
                [ q \in present |-> File(IF lowerEndsWithPdf(q) THEN PDF_HEAD ELSE PNG_HEAD,
                                         500, NoMarks) ],
                DocPdf, NULL, None)
        /\ imagePaths = recorded
        /\ peer = None

\* cleanupGeneratedImages:246-249 - the argument is an array: enter the loop
CleanupCall ==
    /\ entry = "cleanupGeneratedImages"
    /\ pc = "call"
    /\ toClean' = imagePaths
    /\ pc' = "cleaning"
    /\ UNCHANGED << argVars, diskVars, convVars, removeFailed, cleanups, documentBuffer,
                    decision, generatedImages, finalFilePath, callVars, outcome >>

-----------------------------------------------------------------------------
(* The specification: one exported operation is invoked and runs to its end *)

Init == InitExtract \/ InitAttempt \/ InitPerform \/ InitCleanup

Next ==
    \/ ReadInput
    \/ Validate
    \/ DecideConversion
    \/ EnsureImageDir
    \/ ConvertBegin
    \/ RasterRequire
    \/ RasterWritePage
    \/ RasterFails
    \/ RasterReturns
    \/ ConvertWithSharp
    \/ ConvertReturns
    \/ RecordImages
    \/ SelectTarget
    \/ OptimizeTarget
    \/ IssueExtraction
    \/ AnalyzeAnswers
    \/ DetectAnswers
    \/ CleanupBegin
    \/ CleanupCall
    \/ CleanupPath
    \/ CleanupEnd

Spec == Init /\ [][Next]_vars

-----------------------------------------------------------------------------
(* Two services at once: attemptPDFConversion and cleanup run by two       *)
(* callers on two source files in one directory.  Scheduling is            *)
(* cooperative: at an await the running invocation may be suspended and    *)
(* the other resumed; the disk is shared, everything else is the           *)
(* invocation's own.                                                       *)

\* what an invocation owns: its arguments, its locals and its service's list
Locals(c, p, t, b, d, g, r, i, cr, ti, f, tc, ca, an, ch, o, w, rf, cl) ==
    [ pc |-> c, filePath |-> p, documentType |-> t, documentBuffer |-> b,
      decision |-> d, generatedImages |-> g, results |-> r, imagePaths |-> i,
      convReturn |-> cr, targetImage |-> ti, finalFilePath |-> f, toClean |-> tc,
      calls |-> ca, answers |-> an, chain |-> ch, outcome |-> o, written |-> w,
      removeFailed |-> rf, cleanups |-> cl ]

\* a new service about to run attemptPDFConversion(p, t)
NewInvocation(p, t) ==
    Locals("call", p, t, None, None, << >>, << >>, << >>, << >>, None, None,
           << >>, << >>, << >>, << >>, None, {}, {}, << >>)

DocNoExt == Path(TMP, << "doc" >>)

PeerSources == { DocNoExt }

InitTwo ==
    \E q \in PeerSources, t \in { "soporte_prueba_saberProtyt" } :
        /\ Idle("attemptPDFConversion",
                [ x \in { DocPdf, q } |-> File(PDF_HEAD, 2 * MiB, NoMarks) ],
                DocPdf, t, None)
        /\ imagePaths = << >>
        /\ peer = NewInvocation(q, t)

\* an await: the running invocation is suspended and the other one resumed
Switch ==
    /\ peer # None
    /\ peer' = Locals(pc, filePath, documentType, documentBuffer, decision,
                      generatedImages, results, imagePaths, convReturn,
                      targetImage, finalFilePath, toClean, calls, answers,
                      chain, outcome, written, removeFailed, cleanups)
    /\ pc' = peer.pc
    /\ filePath' = peer.filePath
    /\ documentType' = peer.documentType
    /\ documentBuffer' = peer.documentBuffer
    /\ decision' = peer.decision
    /\ generatedImages' = peer.generatedImages
    /\ results' = peer.results
    /\ imagePaths' = peer.imagePaths
    /\ convReturn' = peer.convReturn
    /\ targetImage' = peer.targetImage
    /\ finalFilePath' = peer.finalFilePath
    /\ toClean' = peer.toClean
    /\ calls' = peer.calls
    /\ answers' = peer.answers
    /\ chain' = peer.chain
    /\ outcome' = peer.outcome
    /\ written' = peer.written
    /\ removeFailed' = peer.removeFailed
    /\ cleanups' = peer.cleanups
    /\ UNCHANGED << fs, dirs, entry, fs0 >>

NextTwo ==
    \/ EnsureImageDir
    \/ ConvertBegin
    \/ RasterRequire
    \/ RasterWritePage
    \/ RasterFails
    \/ RasterReturns
    \/ ConvertWithSharp
    \/ ConvertReturns
    \/ RecordImages
    \/ SelectTarget
    \/ OptimizeTarget
    \/ CleanupBegin
    \/ CleanupPath
    \/ CleanupEnd
    \/ Switch

SpecTwo == InitTwo /\ [][NextTwo]_vars

-----------------------------------------------------------------------------
(* Properties of the conversion chain and of the artifact list             *)

Range(q) == { q[i] : i \in 1..Len(q) }

InPipeline == entry \in { "extractTextFromDocument", "attemptPDFConversion" }

\* some strategy returned a path other than the PDF itself
UsableOutput ==
    \E i \in 1..Len(chain) :
        /\ chain[i].ended = "returned"
        /\ \E q \in Range(chain[i].outputPaths) : q # filePath

\* C4: convertPDFToImages never raises and returns a non-empty sequence
\* whatever the strategies do; when no strategy produced usable output the
\* result is exactly the one-element sequence holding the original PDF path.
C4_ChainReturnsNonEmpty ==
    /\ pc \in { "record", "select", "optimize" } =>
          /\ Len(convReturn) > 0
          /\ (~ UsableOutput) => convReturn = << filePath >>
          /\ UsableOutput => convReturn = chain[Len(chain)].outputPaths
    /\ (entry = "attemptPDFConversion" /\ pc = "returned" /\ outcome.kind = "error")
          => chain = << >> /\ convReturn = << >>

C4_Witness ==
    /\ pc = "record"
    /\ Len(chain) = 2
    /\ chain[1] = Attempt("raster", "raised", << >>)
    /\ chain[2] = Attempt("sharp", "raised", << >>)
    /\ written # {}
    /\ convReturn = << filePath >>

\* C5 (as claimed): once cleanup has run, no file written by a conversion
\* strategy or by the optimizer during the invocation is left on the disk
\* (a file whose removal was rejected aside).
C5_NoGeneratedFileLeft ==
    (InPipeline /\ pc = "done") =>
        \A q \in written : q \in removeFailed \/ q \notin DOMAIN fs

\* C6 (as claimed): a path a strategy generated is in generatedImages before
\* any later step begins - the next strategy, the chain's return, selection,
\* optimization, extraction.
C6_RecordedBeforeLaterSteps ==
    (InPipeline /\ pc \in { "sharp", "select", "optimize", "extract",
                            "awaitAnalyze", "awaitDetect", "finally", "returned" })
        => \A q \in written : q \in Range(generatedImages)

\* C7: generatedImages never holds the original input path, and the original
\* file stays on the disk with its content through conversion, optimization,
\* extraction and cleanup.
C7_OriginalNeverRecorded ==
    InPipeline =>
        /\ filePath \notin Range(generatedImages)
        /\ filePath \notin Range(toClean)
        /\ filePath \in DOMAIN fs0 =>
              filePath \in DOMAIN fs /\ fs[filePath] = fs0[filePath]

C7_Witness ==
    /\ entry = "attemptPDFConversion"
    /\ pc = "done"
    /\ filePath = ScanPng
    /\ \E i \in 1..Len(chain) : chain[i] = Attempt("sharp", "returned", << filePath >>)
    /\ filePath \in DOMAIN fs

IsPdfPath(q) == q.name[Len(q.name)] \in { ".pdf", ".PDF" }

\* C8: cleanupGeneratedImages never deletes a path ending in the PDF
\* extension, even one that was recorded: such a path that was on the disk
\* is still there with its content, and every other recorded path that was
\* on the disk and whose removal was not rejected is gone.
C8_CleanupSkipsPdf ==
    entry = "cleanupGeneratedImages" =>
        /\ \A q \in DOMAIN fs0 : IsPdfPath(q) => q \in DOMAIN fs /\ fs[q] = fs0[q]
        /\ pc = "done" =>
              \A q \in Range(imagePaths) :
                  (~ IsPdfPath(q) /\ q \in DOMAIN fs0 /\ q \notin removeFailed)
                      => q \notin DOMAIN fs

C8_Witness ==
    /\ entry = "cleanupGeneratedImages"
    /\ pc = "done"
    /\ imagePaths = << DocPdf, StalePng >>
    /\ { DocPdf, StalePng } \subseteq DOMAIN fs0
    /\ DocPdf \in DOMAIN fs
    /\ StalePng \notin DOMAIN fs

\* C17: cleanup() consumes the list: when it has returned generatedImages
\* is empty, and a further cleanup() with nothing recorded in between never
\* enters the deletion loop and leaves the disk as the first call left it.
C17_CleanupIdempotent ==
    InPipeline =>
        /\ pc = "done" =>
              /\ Len(cleanups) >= 1
              /\ generatedImages = << >>
              /\ toClean = << >>
        /\ Len(cleanups) >= 1 =>
              /\ pc = "done"
              /\ fs = cleanups[1]
              /\ \A i \in 1..Len(cleanups) : cleanups[i] = cleanups[1]

C17_Witness ==
    /\ entry = "attemptPDFConversion"
    /\ pc = "done"
    /\ Len(cleanups) = 2
    /\ \E q \in written : q \notin DOMAIN fs
    /\ \E q \in written : q \in removeFailed /\ q \in DOMAIN fs

\* the list cleanupGeneratedImages was given
CleanupList == IF entry = "cleanupGeneratedImages" THEN imagePaths ELSE generatedImages

\* C18: a rejected deletion does not end cleanup: whatever deletions are
\* rejected, every later path is still visited, every visited non-PDF path
\* whose deletion was not rejected is off the disk, and the call returns
\* without raising.
C18_FailureDoesNotAbort ==
    /\ removeFailed # {} => pc \in { "cleaning", "done" }
    /\ pc = "cleaning" =>
          LET visited == Len(CleanupList) - Len(toClean)
          IN  /\ visited >= 0
              /\ toClean = SubSeq(CleanupList, visited + 1, Len(CleanupList))
              /\ \A i \in 1..visited :
                    (~ IsPdfPath(CleanupList[i]) /\ CleanupList[i] \notin removeFailed)
                        => CleanupList[i] \notin DOMAIN fs
    /\ (entry = "cleanupGeneratedImages" /\ pc = "done") =>
          /\ toClean = << >>
          /\ outcome = None
          /\ \A i \in 1..Len(imagePaths) :
                (~ IsPdfPath(imagePaths[i]) /\ imagePaths[i] \notin removeFailed)
                    => imagePaths[i] \notin DOMAIN fs

C18_Witness ==
    /\ entry = "cleanupGeneratedImages"
    /\ pc = "done"
    /\ imagePaths = << StalePng, ScanPng >>
    /\ { StalePng, ScanPng } \subseteq DOMAIN fs0
    /\ removeFailed = { StalePng }
    /\ StalePng \in DOMAIN fs
    /\ ScanPng \notin DOMAIN fs

\* the invocation has not begun its cleanup
BeforeCleanup(c) == c \notin { "cleaning", "done" }

\* C19 (as claimed): two invocations running at once on different source
\* files do not interfere: their working directories and the files they
\* generate are distinct, neither records a path the other generated, and
\* the cleanup of one removes no file the other generated and has yet to
\* use - a file an invocation generated is on the disk until its own
\* cleanup, and so is the path it returned for OCR.
C19_NoInterference ==
    (peer # None /\ filePath # peer.filePath) =>
        /\ (pc # "call" /\ peer.pc # "call")
              => imageDirOf(filePath) # imageDirOf(peer.filePath)
        /\ written \cap peer.written = {}
        /\ Range(generatedImages) \cap peer.written = {}
        /\ Range(peer.generatedImages) \cap written = {}
        /\ BeforeCleanup(pc) => written \subseteq DOMAIN fs
        /\ BeforeCleanup(peer.pc) => peer.written \subseteq DOMAIN fs
        /\ (pc = "returned" /\ outcome.kind = "value") => outcome.val \in DOMAIN fs
        /\ (peer.pc = "returned" /\ peer.outcome.kind = "value")
              => peer.outcome.val \in DOMAIN fs

-----------------------------------------------------------------------------
(* Properties of the extraction dispatch                                   *)

\* C9: the call shape depends on (docType, byte length of the final file)
\* only: detect exactly when docType is not structured and the length is
\* below 1 MiB; otherwise analyze, through the 60 s / 3 retries client
\* exactly when the length is <= SYNC_BYTES and through the 120 s / 5
\* retries client exactly when it is larger.
C9_CallShape ==
    Len(calls) >= 1 =>
        LET first == calls[1]
            len == first.bytes.len
            structured == documentType = "soporte_prueba_saberProtyt"
        IN  /\ finalFilePath \in DOMAIN fs => first.bytes = fs[finalFilePath]
            /\ first.op = "detectDocumentText" <=> (~ structured /\ len < 1048576)
            /\ first.op = "analyzeDocument" <=> (structured \/ len >= 1048576)
            /\ first.op = "detectDocumentText" => first.client = [ timeout |-> 60000, retries |-> 3 ]
            /\ (first.op = "analyzeDocument" /\ len <= 5242880)
                  => first.client = [ timeout |-> 60000, retries |-> 3 ]
            /\ (first.op = "analyzeDocument" /\ len > 5242880)
                  => first.client = [ timeout |-> 120000, retries |-> 5 ]

C9_Witness ==
    /\ Len(calls) >= 1
    /\ calls[1].op = "analyzeDocument"
    /\ calls[1].bytes.len = SYNC_BYTES + 1
    /\ documentType = NULL
    /\ calls[1].client = extendedTextract

ExtractionOver == pc \in { "finally", "returned", "cleaning", "done" } /\ Len(calls) >= 1

\* the analyze answer gave no usable text: rejected, no blocks, or no LINE
\* block with a non-blank character
AnalyzeFailed(resp) ==
    \/ resp.error # NULL
    \/ ~ resp.hasBlocks
    \/ \A i \in 1..Len(resp.Blocks) :
          resp.Blocks[i].BlockType = "LINE" =>
              \A k \in 1..Len(resp.Blocks[i].Text) : resp.Blocks[i].Text[k] = " "

\* C10: when analyze is chosen and fails (backend error, timeout, or no
\* text), detect is issued exactly once on the same bytes and its outcome is
\* what extraction gives; the analyze error is never propagated, and nothing
\* follows a failing detect: at most one analyze and one detect.
C10_AnalyzeFallsBackOnce ==
    /\ Len(calls) <= 2
    /\ Cardinality({ i \in 1..Len(calls) : calls[i].op = "analyzeDocument" }) <= 1
    /\ Cardinality({ i \in 1..Len(calls) : calls[i].op = "detectDocumentText" }) <= 1
    /\ (ExtractionOver /\ calls[1].op = "analyzeDocument") =>
          IF AnalyzeFailed(answers[1])
          THEN /\ Len(calls) = 2
               /\ calls[2].op = "detectDocumentText"
               /\ calls[2].bytes = calls[1].bytes
               /\ Len(answers) = 2
               /\ outcome = detectOutcome(answers[2])
          ELSE Len(calls) = 1 /\ outcome.kind = "text"
    /\ (ExtractionOver /\ calls[1].op = "detectDocumentText") =>
          Len(calls) = 1 /\ outcome = detectOutcome(answers[1])

C10_Witness ==
    /\ ExtractionOver
    /\ Len(calls) = 2
    /\ calls[1].op = "analyzeDocument"
    /\ answers[1] = Result(<< Block("LINE", << " " >>) >>)
    /\ answers[2].error = "TimeoutError"
    /\ outcome = Error("TimeoutError")

-----------------------------------------------------------------------------
(* Properties of validation and of the errors an invocation ends in        *)

\* C11 (as claimed): the bytes of every backend call have passed
\* validateDocument, and performTextExtraction on a file that is
\* HTML-disguised, shorter than 100 bytes, longer than ASYNC_BYTES or of no
\* supported type ends in the validation error without any backend call.
C11_ValidatedBeforeDispatch ==
    /\ \A i \in 1..Len(calls) : validateDocument(calls[i].bytes) = NULL
    /\ (entry = "performTextExtraction" /\ pc = "returned"
          /\ filePath \in DOMAIN fs0 /\ validateDocument(fs0[filePath]) # NULL)
          => outcome = Error(validateDocument(fs0[filePath])) /\ calls = << >>

\* C12: when validation of the input file fails, the validation error is
\* what the caller gets, and in that invocation no conversion decision is
\* evaluated, no strategy or optimizer runs, no directory or file is
\* created, no backend call is issued and nothing but cleanup follows.
C12_ValidationErrorSurfaced ==
    (entry = "extractTextFromDocument" /\ filePath \in DOMAIN fs0
       /\ pc \notin { "call", "validate" } /\ validateDocument(fs0[filePath]) # NULL)
      => /\ pc \in { "finally", "cleaning", "done" }
         /\ outcome = Error(validateDocument(fs0[filePath]))
         /\ StartsWith(fs0[filePath], HTML_TAG) => outcome = Error("HTML_FILE_DETECTED")
         /\ decision = None
         /\ chain = << >>
         /\ results = << >>
         /\ generatedImages = << >>
         /\ dirs = {}
         /\ written = {}
         /\ fs = fs0
         /\ calls = << >>

C12_Witness ==
    /\ entry = "extractTextFromDocument"
    /\ pc = "done"
    /\ filePath = DocPdf
    /\ fs0 = DiskWith(DocPdf, File(HTML_HEAD, 2 * MiB, NoMarks))
    /\ outcome = Error("HTML_FILE_DETECTED")
    /\ calls = << >>

\* the answer carries no text: no blocks, or no LINE block with a non-blank
\* character
BlankAnswer(resp) == resp.error = NULL /\ AnalyzeFailed(resp)

\* C13: the text an extraction returns is never empty nor whitespace-only:
\* on every path (detect, analyze, analyze then detect) an answer whose
\* aggregated text is empty after trimming ends in NO_TEXT_EXTRACTED.
C13_NeverEmptyText ==
    /\ (outcome # None /\ outcome.kind = "text") =>
          /\ Len(outcome.text) > 0
          /\ \E k \in 1..Len(outcome.text) : outcome.text[k] # " "
          /\ outcome.text[1] # " " /\ outcome.text[Len(outcome.text)] # " "
    /\ (ExtractionOver /\ BlankAnswer(answers[Len(answers)])) =>
          /\ calls[Len(calls)].op = "detectDocumentText"
          /\ outcome = Error("NO_TEXT_EXTRACTED")

C13_Witness ==
    /\ ExtractionOver
    /\ Len(calls) = 2
    /\ answers[1] = Result(<< Block("LINE", << " " >>) >>)
    /\ answers[2] = Result(<< Block("PAGE", << >>), Block("WORD", << "a" >>) >>)
    /\ outcome = Error("NO_TEXT_EXTRACTED")

\* the typed errors: the four validation errors and "no text extracted"
TypedErrors ==
    { "HTML_FILE_DETECTED", "DOCUMENT_TOO_SMALL", "DOCUMENT_TOO_LARGE",
      "UNSUPPORTED_FILE_TYPE: UNKNOWN", "NO_TEXT_EXTRACTED" }

EndedInError ==
    /\ entry = "extractTextFromDocument"
    /\ pc \in { "finally", "cleaning", "done" }
    /\ outcome # None
    /\ outcome.kind = "error"

\* C15 (as claimed): the processing of a document by extractTextFromDocument
\* that ends in an error ends in a validation error or in NO_TEXT_EXTRACTED,
\* whatever the backend does.
C15_OnlyTypedErrors ==
    (EndedInError /\ filePath \in DOMAIN fs0) => outcome.error \in TypedErrors

\* C15 (amended): an invocation that ends in an error ends in a validation
\* error, in NO_TEXT_EXTRACTED, in the error of reading the input file
\* before any backend call, or in the error with which the detect call -
\* the last call issued - was rejected; an analyze error never ends it.
C15_ErrorsAnInvocationEndsIn ==
    EndedInError =>
        \/ outcome.error \in TypedErrors
        \/ /\ calls = << >>
           /\ filePath \notin DOMAIN fs0
           /\ outcome.error = "ENOENT"
        \/ /\ Len(calls) >= 1
           /\ Len(answers) = Len(calls)
           /\ calls[Len(calls)].op = "detectDocumentText"
           /\ answers[Len(answers)].error = outcome.error

C15_Witness ==
    /\ EndedInError
    /\ pc = "done"
    /\ Len(calls) = 1
    /\ calls[1].op = "detectDocumentText"
    /\ answers = << Rejected("TimeoutError") >>
    /\ outcome = Error("TimeoutError")

-----------------------------------------------------------------------------
(* End-to-end scenarios                                                    *)

\* a 2 MiB PDF whose quality score is 5: fonts (+30), image XObjects (-20),
\* FlateDecode (+10), more than two images (-15)
ScannedPdf == File(PDF_HEAD, 2 * MiB, Marks(TRUE, FALSE, TRUE, TRUE, 3))

ScenarioA ==
    /\ entry = "extractTextFromDocument"
    /\ filePath \in DOMAIN fs0
    /\ fs0[filePath] = ScannedPdf
    /\ documentType # NULL
    /\ documentType \in CONVERT_TO_IMAGE_TYPES

\* C20 (as claimed): for a valid 2 MiB PDF of an allow-listed docType and
\* quality score 5 the conversion is attempted; when the raster strategy
\* then returns one page, the file given to extraction is the generated
\* image and not the PDF; and for soporte_prueba_saberProtyt with a final
\* file of at most SYNC_BYTES the first call is analyze through the 60 s
\* client, and lines in its answer give a non-empty text.
C20_ScenarioA ==
    (ScenarioA /\ pc \in { "extract", "awaitAnalyze", "awaitDetect", "finally",
                           "cleaning", "done" }) =>
        /\ assessPDFQuality(fs0[filePath]).score = 5
        /\ decision.ret = TRUE
        /\ chain # << >>
        /\ (Len(chain) = 1 /\ chain[1].ended = "returned" /\ Len(chain[1].outputPaths) = 1)
              => finalFilePath # filePath /\ finalFilePath \in written
        /\ (documentType = "soporte_prueba_saberProtyt" /\ Len(calls) >= 1
               /\ calls[1].bytes.len <= SYNC_BYTES)
              => /\ calls[1].op = "analyzeDocument"
                 /\ calls[1].client = textract
                 /\ (Len(answers) >= 1 /\ ~ AnalyzeFailed(answers[1]) /\ pc = "done")
                       => outcome.kind = "text" /\ Len(outcome.text) > 0

-----------------------------------------------------------------------------
(* The decision is false; every strategy fails                             *)

\* the conversion decision has been taken and is false
DecidedFalse ==
    /\ entry = "extractTextFromDocument"
    /\ decision # None
    /\ decision.ret = FALSE

\* C21: whenever the conversion decision is false (a 10 KiB PDF, below
\* MIN_SIZE_FOR_CONVERSION, whatever its quality score), the decision has
\* changed nothing, no strategy or optimizer has run, no file or directory
\* has been created, generatedImages stays empty, and extraction is performed
\* on the original input path: the bytes sent are those of the input file.
C21_FalseDecisionSkipsConversion ==
    /\ (entry = "extractTextFromDocument" /\ decision # None /\ filePath \in DOMAIN fs0
          /\ fs0[filePath].len = 10 * KiB) => decision.ret = FALSE
    /\ DecidedFalse =>
          /\ pc \in { "extract", "awaitAnalyze", "awaitDetect", "finally",
                      "cleaning", "done" }
          /\ fs = fs0
          /\ dirs = {}
          /\ written = {}
          /\ chain = << >>
          /\ results = << >>
          /\ convReturn = << >>
          /\ targetImage = None
          /\ generatedImages = << >>
          /\ toClean = << >>
          /\ finalFilePath = filePath
          /\ pc # "extract" =>
                /\ Len(calls) >= 1
                /\ \A i \in 1..Len(calls) : calls[i].bytes = fs0[filePath]

C21_Witness ==
    /\ DecidedFalse
    /\ pc = "done"
    /\ fs0[filePath] = File(PDF_HEAD, 10 * KiB, Marks(FALSE, FALSE, TRUE, FALSE, 3))
    /\ documentType = "diploma_bachiller"
    /\ calls = << detectRequest(fs0[filePath]) >>
    /\ outcome.kind = "text"

-----------------------------------------------------------------------------
(* pdfConverter.optimizeImageForTextract(imagePath) called on its own: the *)
(* argument is filePath; chain records how sharp and the copy ended         *)

InitOptimize ==
    \E imagePath \in PageImages, disk \in CandidateDisks :
        Idle("optimizeImageForTextract", disk, imagePath, NULL, None)
            /\ imagePaths = << >> /\ peer = None

\* optimizeImageForTextract:143-177
OptimizeImage ==
    /\ entry = "optimizeImageForTextract"
    /\ pc = "call"
    /\ \E o \in optimizeImageForTextract(fs, filePath) :
          /\ outcome' = o.result
          /\ fs' = o.disk
          /\ chain' = o.attempts
          /\ written' = DOMAIN o.disk \ DOMAIN fs
    /\ pc' = "returned"
    /\ UNCHANGED << argVars, dirs, results, imagePaths, convReturn, targetImage,
                    cleanVars, documentBuffer, decision, generatedImages,
                    finalFilePath, callVars >>

NextOptimize == OptimizeImage

SpecOptimize == InitOptimize /\ [][NextOptimize]_vars

Optimized == entry = "optimizeImageForTextract" /\ pc = "returned"

\* the real optimization failed: sharp is missing, or its pipeline rejected
OptimizationFailed == chain[1] = Attempt("sharp", "raised", << >>)

\* C23 (as claimed): optimizeImageForTextract never raises; whenever the
\* optimization fails it copies the source unchanged and returns the path of
\* the copy; in every outcome the returned path names an existing file.
C23_ReturnsAnExistingFile ==
    Optimized =>
        /\ outcome.kind = "value"
        /\ OptimizationFailed =>
              /\ outcome.val = optimizedOutputPath(filePath)
              /\ outcome.val \in DOMAIN fs
              /\ filePath \in DOMAIN fs0 => fs[outcome.val] = fs0[filePath]
        /\ outcome.val \in DOMAIN fs

\* C23 (amended): optimizeImageForTextract never raises; whenever the
\* optimization fails it copies the source unchanged and returns the path of
\* the copy, or, when the copy fails too, returns imagePath and leaves the
\* disk as it was; so whenever imagePath names an existing file the returned
\* path names an existing file, whether or not real optimization occurred.
C23_ReturnsCopyOrSource ==
    Optimized =>
        LET outputPath == optimizedOutputPath(filePath)
            copied == Len(chain) = 2 /\ chain[2].ended = "returned"
        IN  /\ outcome.kind = "value"
            /\ outcome.val \in { outputPath, filePath }
            /\ (OptimizationFailed /\ copied) =>
                  /\ outcome.val = outputPath
                  /\ outputPath \in DOMAIN fs
                  /\ fs[outputPath] = fs0[filePath]
            /\ (OptimizationFailed /\ ~ copied) =>
                  /\ outcome.val = filePath
                  /\ fs = fs0
            /\ (~ OptimizationFailed) =>
                  outcome.val = outputPath /\ outputPath \in DOMAIN fs
            /\ filePath \in DOMAIN fs0 =>
                  /\ outcome.val \in DOMAIN fs
                  /\ fs[filePath] = fs0[filePath]
            /\ filePath \notin DOMAIN fs0 => outcome.val = filePath /\ fs = fs0

C23_Witness ==
    /\ Optimized
    /\ filePath \in DOMAIN fs0
    /\ fs0[filePath].len = 500
    /\ chain = << Attempt("sharp", "raised", << >>), Attempt("copy", "raised", << >>) >>
    /\ outcome = Value(filePath)
    /\ filePath \in DOMAIN fs

-----------------------------------------------------------------------------
(* pdfConverter.assessPDFQuality(pdfBuffer) called on its own: the buffer   *)
(* is its length and the places where the five markers occur in it          *)

\* the length of a marker string
MarkerLen(marker) ==
    CASE marker = "/Type/Font" -> 10
      [] marker = "/Subtype/Type1" -> 14
      [] marker = "/Type/XObject" -> 13
      [] marker = "/Subtype/Image" -> 14
      [] marker = "/Filter/FlateDecode" -> 19

Occurrence(at, marker) == [ at |-> at, marker |-> marker ]

PdfBytes(len, occurrences) == [ len |-> len, occurrences |-> occurrences ]

\* sampleSize when the whole buffer is scanned
sampleSize_wholeBuffer(pdfBuffer) == pdfBuffer.len

\* assessPDFQuality:196 - Math.min(pdfBuffer.length, 10000)
sampleSize(pdfBuffer) == Min(pdfBuffer.len, SAMPLE_BYTES)

\* assessPDFQuality:197 - pdfBuffer.toString('ascii', 0, sampleSize): the
\* occurrences that lie wholly inside the sample
bufferStr(pdfBuffer) ==
    { o \in pdfBuffer.occurrences : o.at + MarkerLen(o.marker) <= sampleSize(pdfBuffer) }

\* bufferStr.includes(marker)
includes(str, marker) == \E o \in str : o.marker = marker

\* (bufferStr.match(/marker/g) || []).length
matchCount(str, marker) == Cardinality({ o \in str : o.marker = marker })

\* assessPDFQuality:194-241 on the bytes of a buffer, or on no buffer
assessPDFQualityOfBytes(pdfBuffer) ==
    IF pdfBuffer = None THEN assessPDFQuality(None)
    ELSE LET str == bufferStr(pdfBuffer)
         IN  assessPDFQuality(
                 Content(<< >>, pdfBuffer.len,
                         Marks(includes(str, "/Type/Font"),
                               includes(str, "/Subtype/Type1"),
                               includes(str, "/Type/XObject"),
                               includes(str, "/Filter/FlateDecode"),
                               matchCount(str, "/Subtype/Image"))))

\* where a marker may occur: early in the buffer, ending exactly at byte
\* 10000, straddling byte 10000, and after it
Placements ==
    { Occurrence(100, "/Type/Font"), Occurrence(200, "/Type/XObject"),
      Occurrence(300, "/Subtype/Image"), Occurrence(320, "/Subtype/Image"),
      Occurrence(340, "/Subtype/Image"), Occurrence(400, "/Filter/FlateDecode"),
      Occurrence(SAMPLE_BYTES - 14, "/Subtype/Type1"),
      Occurrence(SAMPLE_BYTES - 9, "/Type/Font"),
      Occurrence(SAMPLE_BYTES + 1, "/Subtype/Image") }

AssessLens == { 600, SAMPLE_BYTES, SAMPLE_BYTES + 20 }

\* the buffers: every marker placed lies inside the buffer
AssessInputs ==
    { b \in [ len : AssessLens, occurrences : SUBSET Placements ] :
        \A o \in b.occurrences : o.at + MarkerLen(o.marker) <= b.len }

InitAssess ==
    \E b \in AssessInputs \cup { None } :
        Idle("assessPDFQuality", EmptyDisk, DocPdf, NULL, b)
            /\ imagePaths = << >> /\ peer = None

AssessQuality ==
    /\ entry = "assessPDFQuality"
    /\ pc = "call"
    /\ outcome' = Value(assessPDFQualityOfBytes(documentBuffer))
    /\ pc' = "returned"
    /\ UNCHANGED << argVars, diskVars, convVars, cleanVars, documentBuffer,
                    decision, generatedImages, finalFilePath, callVars >>

NextAssess == AssessQuality

SpecAssess == InitAssess /\ [][NextAssess]_vars

Assessed == entry = "assessPDFQuality" /\ pc = "returned"

\* the markers that lie wholly inside the first min(length, 10000) bytes
InSample(b) ==
    { o \in b.occurrences : o.at + MarkerLen(o.marker) <= Min(b.len, 10000) }

\* two buffers have the same first min(length, 10000) bytes
SamePrefix(b, c) ==
    /\ Min(b.len, 10000) = Min(c.len, 10000)
    /\ { o \in b.occurrences : o.at < 10000 } = { o \in c.occurrences : o.at < 10000 }

FontPart(s) == IF \E o \in s : o.marker \in { "/Type/Font", "/Subtype/Type1" } THEN 30 ELSE 0
FlatePart(s) == IF \E o \in s : o.marker = "/Filter/FlateDecode" THEN 10 ELSE 0
ImageOccurrences(s) == Cardinality({ o \in s : o.marker = "/Subtype/Image" })
ManyImagesPart(s) == IF ImageOccurrences(s) > 2 THEN 15 ELSE 0
ImageObjectPart(s) ==
    IF ImageOccurrences(s) > 0 /\ \E o \in s : o.marker = "/Type/XObject" THEN 20 ELSE 0

\* what C24 says in both its forms: no failure, the sum of the four terms,
\* and a score that depends on the sample only
ScoreIsSumOverSample ==
    /\ outcome.kind = "value"
    /\ documentBuffer = None => outcome.val.score = 0
    /\ documentBuffer # None =>
          LET s == InSample(documentBuffer)
          IN  /\ outcome.val.score =
                    FontPart(s) - ImageObjectPart(s) + FlatePart(s) - ManyImagesPart(s)
              /\ \A c \in AssessInputs :
                    SamePrefix(documentBuffer, c)
                        => assessPDFQualityOfBytes(c) = outcome.val

\* C24 (as claimed): assessPDFQuality never fails; its score is a function of
\* the first min(length, 10000) bytes only: +30 for font markers, -20 for
\* image-object markers, +10 for compression markers, -15 for more than 2
\* image-object occurrences, summed; and a sample with more than 2
\* image-object occurrences receives both image penalties.
C24_BothImagePenalties ==
    Assessed =>
        /\ ScoreIsSumOverSample
        /\ (documentBuffer # None /\ ImageOccurrences(InSample(documentBuffer)) > 2) =>
              outcome.val.score =
                  FontPart(InSample(documentBuffer)) + FlatePart(InSample(documentBuffer)) - 35

\* C24 (amended): as claimed, the -20 being applied when both /Type/XObject
\* and /Subtype/Image occur in the sample and the -15 when /Subtype/Image
\* occurs more than twice; a sample with more than 2 such occurrences
\* receives both penalties when /Type/XObject occurs in it too, and the -15
\* alone otherwise.
C24_ScoreOfSample ==
    Assessed =>
        /\ ScoreIsSumOverSample
        /\ (documentBuffer # None /\ ImageOccurrences(InSample(documentBuffer)) > 2) =>
              LET s == InSample(documentBuffer)
                  penalties == IF \E o \in s : o.marker = "/Type/XObject" THEN 35 ELSE 15
              IN  outcome.val.score = FontPart(s) + FlatePart(s) - penalties

C24_Witness ==
    /\ Assessed
    /\ documentBuffer # None
    /\ documentBuffer.len = SAMPLE_BYTES + 20
    /\ documentBuffer.occurrences =
          { Occurrence(100, "/Type/Font"), Occurrence(300, "/Subtype/Image"),
            Occurrence(320, "/Subtype/Image"), Occurrence(340, "/Subtype/Image"),
            Occurrence(SAMPLE_BYTES - 9, "/Type/Font"),
            Occurrence(SAMPLE_BYTES + 1, "/Subtype/Image") }
    /\ outcome.val.score = 15

-----------------------------------------------------------------------------
(* The order of the strategies within one convertPDFToImages call          *)

\* the strategy raised, or returned no path
FailedOrNothing(attempt) == attempt.ended = "raised" \/ attempt.outputPaths = << >>

RasterInProgress == pc \in { "raster", "rasterBulk" }
DegradedInProgress == pc = "sharp"

\* convertPDFToImages has returned [pdfPath] on its own account (lines 52,
\* 58, 67), not as what a strategy returned
PassthroughTaken ==
    /\ InPipeline
    /\ pc \notin { "call", "ensureImageDir", "convert", "raster", "rasterBulk",
                   "sharp", "convReturn" }
    /\ convReturn = << filePath >>
    /\ ~ (chain # << >> /\ chain[Len(chain)].ended = "returned"
            /\ chain[Len(chain)].outputPaths # << >>)

\* the strategies have run one at a time in the order raster, degraded
OneAtATimeInOrder ==
    /\ Len(chain) <= 2
    /\ Len(chain) >= 1 => chain[1].strategyName = "raster"
    /\ Len(chain) = 2 => chain[2].strategyName = "sharp"
    /\ RasterInProgress => chain = << >>
    /\ DegradedInProgress => Len(chain) = 1 /\ FailedOrNothing(chain[1])
    /\ Len(chain) = 2 => FailedOrNothing(chain[1])
    /\ (Len(chain) = 1 /\ chain[1].ended = "raised") => DegradedInProgress
    /\ (Len(chain) = 2 /\ chain[2].ended = "raised") => PassthroughTaken

\* C25 (as claimed): within one convert call the strategies run one after
\* another in the order raster, degraded, passthrough: never two at once,
\* the degraded one only after the raster one has failed or produced
\* nothing, a strategy that raises is followed by the next, and the
\* passthrough result is taken only after both strategies have failed or
\* yielded nothing.
C25_PassthroughAfterBoth ==
    InPipeline =>
        /\ OneAtATimeInOrder
        /\ (PassthroughTaken /\ chain # << >>) =>
              /\ Len(chain) = 2
              /\ FailedOrNothing(chain[1])
              /\ FailedOrNothing(chain[2])

-----------------------------------------------------------------------------
(* The aggregation of one backend result, by extractWithDetectDocument      *)
(* after its call has answered and by processAnalyzeResult                  *)

MaxBlocks == 3

SampleBlocks ==
    { Block("LINE", << "a" >>), Block("LINE", << " ", "b", " " >>),
      Block("LINE", << " " >>), Block("LINE", << >>),
      Block("WORD", << "w" >>), Block("PAGE", << >>) }

\* the results the backend may give: without Blocks, or with up to MaxBlocks
AggregateResults ==
    { ResultWithoutBlocks } \cup { Result(blocks) : blocks \in SeqsUpTo(SampleBlocks, MaxBlocks) }

InitAggregate ==
    \E e \in { "extractWithDetectDocument", "processAnalyzeResult" } :
        Idle(e, EmptyDisk, DocPdf, NULL, None) /\ imagePaths = << >> /\ peer = None

\* extractWithDetectDocument:393-417 on the result of its call
AggregateDetect ==
    /\ entry = "extractWithDetectDocument"
    /\ pc = "call"
    /\ \E result \in AggregateResults :
          /\ answers' = << result >>
          /\ outcome' = detectOutcome(result)
    /\ pc' = "returned"
    /\ UNCHANGED << argVars, diskVars, convVars, cleanVars, documentBuffer,
                    decision, generatedImages, finalFilePath, calls >>

\* processAnalyzeResult:420-448
AggregateAnalyze ==
    /\ entry = "processAnalyzeResult"
    /\ pc = "call"
    /\ \E result \in AggregateResults :
          /\ answers' = << result >>
          /\ outcome' = processAnalyzeResult(result)
    /\ pc' = "returned"
    /\ UNCHANGED << argVars, diskVars, convVars, cleanVars, documentBuffer,
                    decision, generatedImages, finalFilePath, calls >>

NextAggregate == AggregateDetect \/ AggregateAnalyze

SpecAggregate == InitAggregate /\ [][NextAggregate]_vars

Aggregated ==
    entry \in { "extractWithDetectDocument", "processAnalyzeResult" } /\ pc = "returned"

\* the texts of the blocks, in order, with one space between consecutive ones
RECURSIVE JoinedBySpace(_)
JoinedBySpace(blocks) ==
    IF blocks = << >> THEN << >>
    ELSE IF Len(blocks) = 1 THEN blocks[1].Text
    ELSE blocks[1].Text \o << " " >> \o JoinedBySpace(Tail(blocks))

LineBlocks(result) == SelectSeq(result.Blocks, LAMBDA b : b.BlockType = "LINE")

\* t with its leading and trailing spaces taken off
Trimmed(t) ==
    LET inked == { k \in 1..Len(t) : t[k] # " " }
    IN  IF inked = {} THEN << >>
        ELSE SubSeq(t, CHOOSE k \in inked : \A j \in inked : k <= j,
                       CHOOSE k \in inked : \A j \in inked : j <= k)

\* C26: the text detect and analyze return is the text of every LINE block of
\* the result, in the order returned, joined by a single space and trimmed;
\* blocks of another type contribute nothing; when that text is empty the
\* outcome is NO_TEXT_EXTRACTED; and both aggregate one result to one text.
C26_AggregatedText ==
    Aggregated =>
        LET result == answers[1]
            expected == Trimmed(JoinedBySpace(LineBlocks(result)))
        IN  /\ expected # << >> => outcome = Text(expected)
            /\ expected = << >> => outcome = Error("NO_TEXT_EXTRACTED")
            /\ detectOutcome(result) = processAnalyzeResult(result)

C26_Witness ==
    /\ entry = "processAnalyzeResult"
    /\ pc = "returned"
    /\ answers = << Result(<< Block("LINE", << "a" >>), Block("WORD", << "w" >>),
                              Block("LINE", << " ", "b", " " >>) >>) >>
    /\ outcome = Text(<< "a", " ", " ", "b" >>)

-----------------------------------------------------------------------------
(* The finally block of the module function extractTextFromDocument        *)

\* the pipeline has finished and its result or error is the one validation
\* and extraction decide
PipelineOutcome ==
    IF filePath \notin DOMAIN fs0 THEN outcome = Error("ENOENT")
    ELSE IF validateDocument(fs0[filePath]) # NULL
         THEN outcome = Error(validateDocument(fs0[filePath]))
    ELSE /\ Len(calls) >= 1
         /\ Len(answers) = Len(calls)
         /\ outcome = IF calls[Len(calls)].op = "analyzeDocument"
                      THEN analyzeOutcome(answers[Len(answers)])
                      ELSE detectOutcome(answers[Len(answers)])

\* C27: in every invocation of the module function extractTextFromDocument
\* cleanup runs exactly once, only after the pipeline has finished (with a
\* text or an error, a validation error included) and before the caller
\* gets the result; it never runs while the final file is still to be read
\* for OCR; and what the caller gets is the pipeline's own result or error.
C27_CleanupOnceAfterPipeline ==
    entry = "extractTextFromDocument" =>
        /\ Len(cleanups) <= 1
        /\ pc = "done" <=> Len(cleanups) = 1
        /\ pc \in { "finally", "cleaning", "done" } =>
              /\ outcome # None
              /\ outcome.kind \in { "text", "error" }
              /\ PipelineOutcome
        /\ pc \notin { "finally", "cleaning", "done" } =>
              /\ outcome = None
              /\ cleanups = << >>
              /\ toClean = << >>
              /\ removeFailed = {}

C27_Witness ==
    /\ entry = "extractTextFromDocument"
    /\ pc = "done"
    /\ Len(cleanups) = 1
    /\ Len(calls) = 2
    /\ calls[2].bytes = fs[filePath]
    /\ outcome = Error("NO_TEXT_EXTRACTED")

-----------------------------------------------------------------------------
(* Termination: every file operation completes and every backend call      *)
(* completes, fails or times out, so a step that can be taken is taken      *)

SpecLive == Init /\ [][Next]_vars /\ WF_vars(Next)

\* the invoked operation has given its caller a result or an error
Terminated ==
    /\ outcome # None
    /\ outcome.kind \in { "text", "error", "value" }
    /\ IF entry = "extractTextFromDocument" THEN pc = "done"
       ELSE pc \in { "returned", "cleaning", "done" }

\* C28: every invocation of the entry point eventually terminates with a text
\* or an error, every file operation and every backend call completing; the
\* strategy chain, the analyze-to-detect fallback and cleanup do not loop
\* without bound; and at most two backend calls are issued per invocation.
C28_Terminates ==
    /\ [](Len(calls) <= 2)
    /\ (entry \in { "extractTextFromDocument", "attemptPDFConversion",
                    "performTextExtraction" }) ~> Terminated
    /\ (entry = "extractTextFromDocument")
          ~> (pc = "done" /\ outcome # None /\ outcome.kind \in { "text", "error" })
    /\ (pc = "cleaning") ~> (pc = "done")

C28_Witness ==
    /\ entry = "extractTextFromDocument"
    /\ pc = "done"
    /\ Len(calls) = 2
    /\ Len(answers) = 2
    /\ outcome.kind = "text"

====
